---- MODULE Spec2Model ----
(***************************************************************************)
(* SimEngine: the avatar and animation subsystem (simengine/avatars.py),   *)
(* driven by a client session that constructs avatars for one positional   *)
(* unit, moves the unit and calls the avatars' methods (Spec); the world   *)
(* of the example program ticking its units through the stage list         *)
(* (SpecWorld); the example's application loop around it (SpecApp); the    *)
(* pygame renderer drawing one frame (SpecRender); and the geometry kernel *)
(* (simengine/geometry.py) used by a client on its own (SpecGeometry).     *)
(*                                                                         *)
(* Python objects are records that carry the set `has` of the attributes   *)
(* their instance dictionary holds; a read of an attribute that neither    *)
(* the instance nor its class defines raises AttributeError.  A method is  *)
(* an operator from the object (and the unit's position) to the object     *)
(* after the call and the exception the call raised ("none" when it        *)
(* returned).                                                              *)
(***************************************************************************)
EXTENDS Integers, Sequences, FiniteSets, TLC

VARIABLES
    unitPos,    \* PositionalUnit.position of the unit the avatars belong to
    prim,       \* the session's PrimitiveAvatar
    anim,       \* the session's animation handle (unbound until constructed)
    animReq,    \* the arguments of the session's animation construction
    avatar,     \* the session's topic-animation avatar handle
    avatarReq,  \* the arguments of the session's avatar construction
    calls,      \* update() calls issued on the animation handle so far
    err,        \* the exception raised by the session's last call
    last,       \* the session's last call
    units,      \* the world's unit collection, in order
    timerOver,  \* whether the spawner's Timer has run out since its last start()
    tickNo,     \* world ticks begun so far
    stageIdx,   \* the stage of the tick that runs next (past the last: none)
    stageLog,   \* the stages run in the current tick, in order
    packs,      \* the resource packs the last resolve stage collected
    handlers,   \* the handlers registered with the event controller
    appPc,      \* "idle" between phases, "dispatch", "stages" or "exited"
    phaseIdx,   \* the phase of the loop that runs next
    iter,       \* loop iterations begun so far
    queue,      \* the events the current iteration polled
    evIdx,      \* the polled event that is dispatched next
    invoked,    \* <<event index, handler>> for each handler run this iteration
    phaseLog,   \* the phases the current iteration has performed
    rendered,   \* the resource packs the last render phase drew
    toDraw,     \* the resource packs handed to a PygameSurfaceRender
    surface,    \* the calls made on the renderer's surface for the frame
    renderErr,  \* what drawing the frame raised ("pending" before it is drawn)
    division,   \* the last use of a VectorDivider: its check and its outcome
    line,       \* the Line under test
    lineErr,    \* the exception raised by the last operation on the line
    assigned,   \* the endpoint assignments made on the line, in order
    asked,      \* the last is_point_inside query and its answer
    added       \* the last addition of two Vectors

sessionVars == <<unitPos, prim, anim, animReq, avatar, avatarReq, calls, err, last>>

worldVars == <<units, timerOver, tickNo, stageIdx, stageLog, packs>>

appVars ==
    <<handlers, appPc, phaseIdx, iter, queue, evIdx, invoked, phaseLog, rendered>>

renderVars == <<toDraw, surface, renderErr>>

geomVars == <<division, line, lineErr, assigned, asked, added>>

libVars == <<renderVars, geomVars>>

vars == <<sessionVars, worldVars, appVars, libVars>>

\* ------------------------------------------------------------------ bounds

MaxCoord == 1
MaxStay == 2
MaxSprites == 2
MaxCalls == 2
MaxTicks == 6
MaxSpawned == 1
ZoneW == 1
ZoneH == 1
\* The distance to the target of the speed-limit property of the
\* specification (a unit with speed limit 2, target 10 away along one axis).
TargetDistance == 10

MaxIter == 2

MaxEvents == 2

MaxPacks == 2

\* a Line runs from (0, 0) to (LineLength, 0)
LineLength == 10

MaxRise == 1

MaxAssign == 2

MaxDim == 3

MaxAddend == 3

Coords == 0..MaxCoord
Points == {<<x, 0>> : x \in Coords}
Resources == {"r1", "r2"}
Topics == {"walk"}
TopicArgs == Topics \cup {"jump"}

\* ------------------------------------------------------------- class table

AnimationClasses == {"CustomAnimation", "CustomEndlessAnimation"}

\* The method resolution order of each concrete class.
MRO(cls) ==
    CASE cls = "PrimitiveAvatar" ->
           <<"PrimitiveAvatar", "ResourceAvatar", "SingleResourcePackAvatar",
             "Avatar", "IAvatar", "IUpdatable">>
      [] cls = "CustomAnimation" ->
           <<"CustomAnimation", "Animation", "SingleResourcePackAvatar",
             "Avatar", "IAvatar", "IUpdatable">>
      [] cls = "CustomEndlessAnimation" ->
           <<"CustomEndlessAnimation", "EndlessAnimation", "CustomAnimation",
             "Animation", "SingleResourcePackAvatar", "Avatar", "IAvatar",
             "IUpdatable">>
      [] cls = "CustomTopicAnimationAvatar" ->
           <<"CustomTopicAnimationAvatar", "TopicAnimationAvatar",
             "AnimationAvatar", "Avatar", "IAvatar", "IUpdatable">>

\* The members a class body defines (not only declares abstract).
Defines(c) ==
    CASE c = "Avatar" -> {"__init__", "unit"}
      [] c = "SingleResourcePackAvatar" -> {"render_resource_packs", "update"}
      [] c = "ResourceAvatar" -> {"__init__", "render_resource"}
      [] c = "PrimitiveAvatar" -> {"__init__", "render_resource"}
      [] c = "Animation" ->
           {"__init__", "update", "is_finished", "_active_sprite",
            "_update_main_resource_pack", "_handle_finish",
            "_current_sprite_index"}
      [] c = "CustomAnimation" -> {"__init__"}
      [] c = "EndlessAnimation" -> {"_handle_finish"}
      [] c = "CustomEndlessAnimation" -> {}
      [] c = "AnimationAvatar" -> {"__init__", "render_resource_packs", "update"}
      [] c = "TopicAnimationAvatar" ->
           {"__init__", "update", "activate_animation_by_topic"}
      [] c = "CustomTopicAnimationAvatar" -> {"__init__"}
      [] OTHER -> {}

\* The members the interfaces declare abstract.
AbstractMembers(c) ==
    CASE c = "IUpdatable" -> {"update"}
      [] c = "IAvatar" -> {"render_resource"}
      [] OTHER -> {}

\* The class of the MRO whose body defines `name`, "" when none does.
RECURSIVE Owner(_, _, _)
Owner(mro, i, name) ==
    IF i > Len(mro) THEN ""
    ELSE IF name \in Defines(mro[i]) THEN mro[i]
    ELSE Owner(mro, i + 1, name)

\* The abstract members no class of the MRO implements: a class with any is
\* refused by object.__new__ with TypeError.
UnimplementedAbstract(cls) ==
    {m \in UNION {AbstractMembers(MRO(cls)[i]) : i \in 1..Len(MRO(cls))} :
        Owner(MRO(cls), 1, m) = ""}

\* ------------------------------------------------------------------ values

\* Sprite and its __post_init__: the remaining ticks start at the maximum.
Sprite(resource, max_stay_ticks) ==
    [resource |-> resource, max_stay_ticks |-> max_stay_ticks,
     real_stay_ticks |-> max_stay_ticks]

ResourcePack(resource, point) == [resource |-> resource, point |-> point]

NoPack == ResourcePack("unset", <<0, 0>>)

\* A handle no object is bound to, and the object object.__new__ returns: an
\* empty instance dictionary (the fields hold placeholders until `has` names
\* them; idx starts as the class attribute _current_sprite_index = 0).
Unbound ==
    [bound |-> FALSE, cls |-> "", has |-> {}, sprites |-> <<>>, idx |-> 0,
     pack |-> NoPack]

New(cls) == [Unbound EXCEPT !.bound = TRUE, !.cls = cls]

Ok(o) == [o |-> o, exc |-> "none"]

Raise(o, exc) == [o |-> o, exc |-> exc]

\* Statement sequencing: the statements after one that raised do not run.
Then(s, Rest(_)) == IF s.exc # "none" THEN s ELSE Rest(s.o)

\* What the caller of a constructor gets: the object, or the exception and
\* no object.
Constructed(s, none) == IF s.exc # "none" THEN Raise(none, s.exc) ELSE s

\* Whether a read of self.<name> finds the attribute, in the instance or in a
\* class of its MRO.
HasAttr(o, name) == name \in o.has \/ Owner(MRO(o.cls), 1, name) # ""

\* Inside the body of class Animation the identifier __current_sprite_index
\* is mangled to this name.
PrivateIndexName == "_Animation__current_sprite_index"

\* A read of an integer attribute of an animation: the cursor is the only one
\* the class or its instances ever hold.
ReadInt(o, name) ==
    IF name = "_current_sprite_index" /\ HasAttr(o, name)
    THEN [val |-> o.idx, exc |-> "none"]
    ELSE [val |-> 0, exc |-> "AttributeError"]

\* The sprite sequences the session passes to the animation constructors.
SpriteSeqs ==
    UNION {[1..n -> 1..MaxStay] : n \in 1..MaxSprites}

SpritesOf(stays) ==
    [i \in 1..Len(stays) |-> Sprite(IF i = 1 THEN "r1" ELSE "r2", stays[i])]

RECURSIVE SumStay(_, _)
SumStay(stays, i) ==
    IF i > Len(stays) THEN 0 ELSE stays[i] + SumStay(stays, i + 1)

\* --------------------------------------------- single-resource-pack avatars

Avatar__init__(o) == Ok([o EXCEPT !.has = @ \cup {"_unit"}])

\* SingleResourcePackAvatar.render_resource_packs
render_resource_packs(o) ==
    IF HasAttr(o, "_main_resource_pack")
    THEN [val |-> <<o.pack>>, exc |-> "none"]
    ELSE [val |-> <<>>, exc |-> "AttributeError"]

SingleResourcePackAvatar_update(o, pos) ==
    IF ~HasAttr(o, "_unit") \/ ~HasAttr(o, "_main_resource_pack")
    THEN Raise(o, "AttributeError")
    ELSE Ok([o EXCEPT !.pack.point = pos])

ResourceAvatar__init__(o, resource, pos) ==
    Then(Avatar__init__(o), LAMBDA o1 :
    Ok([o1 EXCEPT !.has = @ \cup {"_main_resource_pack"},
                  !.pack = ResourcePack(resource, pos)]))

PrimitiveAvatar__init__(o, resource, pos) ==
    ResourceAvatar__init__([o EXCEPT !.has = @ \cup {"_resource_factory"}],
                           resource, pos)

\* The setter of PrimitiveAvatar.render_resource.
SetRenderResource(o, resource) == Ok([o EXCEPT !.pack.resource = resource])

\* ------------------------------------------------------------- animations

_active_sprite(o) ==
    IF ~HasAttr(o, "_sprites")
    THEN [val |-> Sprite("unset", 0), exc |-> "AttributeError"]
    ELSE IF o.idx + 1 > Len(o.sprites)
    THEN [val |-> Sprite("unset", 0), exc |-> "IndexError"]
    ELSE [val |-> o.sprites[o.idx + 1], exc |-> "none"]

\* The right operand of `and` in is_finished, given the active sprite read.
StayTicksOver(a) ==
    [val |-> a.exc = "none" /\ a.val.real_stay_ticks <= 0, exc |-> a.exc]

is_finished(o) ==
    IF ~HasAttr(o, "_sprites") THEN [val |-> FALSE, exc |-> "AttributeError"]
    ELSE IF ~(o.idx >= Len(o.sprites) - 1) THEN [val |-> FALSE, exc |-> "none"]
    ELSE StayTicksOver(_active_sprite(o))

\* The pack built from the sprite the index read names.
PackOfSprite(o, i, pos) ==
    IF i.exc # "none" THEN Raise(o, i.exc)
    ELSE IF i.val + 1 > Len(o.sprites) THEN Raise(o, "IndexError")
    ELSE IF ~HasAttr(o, "_unit") THEN Raise(o, "AttributeError")
    ELSE Ok([o EXCEPT !.has = @ \cup {"_main_resource_pack"},
                      !.pack = ResourcePack(o.sprites[i.val + 1].resource, pos)])

_update_main_resource_pack(o, pos) ==
    IF ~HasAttr(o, "_sprites") THEN Raise(o, "AttributeError")
    ELSE PackOfSprite(o, ReadInt(o, PrivateIndexName), pos)

Animation__handle_finish(o) == Raise(o, "AnimationAlreadyFinishedError")

EndlessAnimation__handle_finish(o) ==
    Ok([o EXCEPT !.has = @ \cup {"_current_sprite_index"},
                 !.idx = 0,
                 !.sprites = [i \in 1..Len(o.sprites) |->
                     [o.sprites[i] EXCEPT
                         !.real_stay_ticks = o.sprites[i].max_stay_ticks]]])

\* self._handle_finish(), dispatched on the object's class.
_handle_finish(o) ==
    IF Owner(MRO(o.cls), 1, "_handle_finish") = "EndlessAnimation"
    THEN EndlessAnimation__handle_finish(o)
    ELSE Animation__handle_finish(o)

\* Lines 90-93 of Animation.update: decrement the active sprite, then move
\* the cursor on when the sprite it now names has no ticks left.
AdvanceWhenSpent(o1) ==
    IF o1.sprites[o1.idx + 1].real_stay_ticks <= 0
    THEN Ok([o1 EXCEPT !.has = @ \cup {"_current_sprite_index"}, !.idx = @ + 1])
    ELSE Ok(o1)

DecrementAndAdvance(o) ==
    IF _active_sprite(o).exc # "none" THEN Raise(o, _active_sprite(o).exc)
    ELSE AdvanceWhenSpent(
             [o EXCEPT !.sprites[o.idx + 1].real_stay_ticks = @ - 1])

\* Lines 85-86 of Animation.update, given what is_finished() returned.
HandleFinishWhen(f, o) ==
    IF f.exc # "none" THEN Raise(o, f.exc)
    ELSE IF f.val THEN _handle_finish(o) ELSE Ok(o)

Animation_update(o, pos) ==
    Then(SingleResourcePackAvatar_update(o, pos), LAMBDA o1 :
    Then(HandleFinishWhen(is_finished(o1), o1), LAMBDA o2 :
    Then(_update_main_resource_pack(o2, pos), LAMBDA o3 :
    DecrementAndAdvance(o3))))

Animation__init__(o, pos) ==
    Then(Avatar__init__(o), LAMBDA o1 : _update_main_resource_pack(o1, pos))

\* CustomAnimation.__init__ (CustomEndlessAnimation inherits it): the sprites
\* are stored only after the base constructor has returned.
CustomAnimation__init__(o, sprites, pos) ==
    Then(Animation__init__(o, pos), LAMBDA o1 :
    Ok([o1 EXCEPT !.has = @ \cup {"_sprites"}, !.sprites = sprites]))

\* cls(unit, sprites): type.__call__ refuses a class with unimplemented
\* abstract members, and otherwise runs __init__ on a fresh object; the
\* caller gets the object only when __init__ returns.
NewAnimation(cls, sprites, pos) ==
    IF UnimplementedAbstract(cls) # {} THEN Raise(Unbound, "TypeError")
    ELSE Constructed(CustomAnimation__init__(New(cls), sprites, pos), Unbound)

NewPrimitiveAvatar(resource, pos) ==
    IF UnimplementedAbstract("PrimitiveAvatar") # {} THEN Raise(Unbound, "TypeError")
    ELSE PrimitiveAvatar__init__(New("PrimitiveAvatar"), resource, pos)

\* ------------------------------------------------------ animation avatars

AnimKeys == {"default"} \cup Topics

\* An animation factory: a class and the sprites it is called with; `set` is
\* whether the attribute holding the factory has been given a value at all.
Factory(cls, stays) == [set |-> TRUE, cls |-> cls, stays |-> stays]

NoFactory == [set |-> FALSE, cls |-> "", stays |-> <<>>]

UnboundAvatar ==
    [bound |-> FALSE, cls |-> "", has |-> {}, cur |-> "default",
     anims |-> [k \in AnimKeys |-> Unbound]]

NewAvatarObject(cls) == [UnboundAvatar EXCEPT !.bound = TRUE, !.cls = cls]

\* AnimationAvatar.__init__: _default_animation_factory is a class attribute
\* the subclass is to supply; AnimationAvatar only annotates it.
\* factory(unit): the animation a factory makes.
CallFactory(factory, pos) ==
    NewAnimation(factory.cls, SpritesOf(factory.stays), pos)

\* The assignments of AnimationAvatar.__init__, given the default animation.
KeepDefault(o, d) ==
    IF d.exc # "none" THEN Raise(o, d.exc)
    ELSE Ok([o EXCEPT
               !.has = @ \cup {"_current_animation", "_default_animation"},
               !.cur = "default",
               !.anims["default"] = d.o])

AnimationAvatar__init__(o, defaultFactory, pos) ==
    Then(Avatar__init__(o), LAMBDA o1 :
    IF ~defaultFactory.set THEN Raise(o1, "AttributeError")
    ELSE KeepDefault(o1, CallFactory(defaultFactory, pos)))

\* The assignment of TopicAnimationAvatar.__init__, given the animations the
\* dict comprehension built.
KeepByTopic(o, built) ==
    IF \E t \in Topics : built[t].exc # "none"
    THEN Raise(o, built[CHOOSE t \in Topics : built[t].exc # "none"].exc)
    ELSE Ok([o EXCEPT
               !.has = @ \cup {"_animation_by_topic"},
               !.anims = [k \in AnimKeys |->
                            IF k = "default" THEN @[k] ELSE built[k].o]])

TopicAnimationAvatar__init__(o, defaultFactory, factoryByTopic, pos) ==
    Then(AnimationAvatar__init__(o, defaultFactory, pos), LAMBDA o1 :
    KeepByTopic(o1, [t \in Topics |-> CallFactory(factoryByTopic[t], pos)]))

CustomTopicAnimationAvatar__init__(o, defaultFactory, factoryByTopic, pos) ==
    TopicAnimationAvatar__init__(
        [o EXCEPT !.has = @ \cup {"_animation_factory_by_topic"}],
        defaultFactory, factoryByTopic, pos)

NewTopicAvatar(defaultFactory, factoryByTopic, pos) ==
    IF UnimplementedAbstract("CustomTopicAnimationAvatar") # {}
    THEN Raise(UnboundAvatar, "TypeError")
    ELSE Constructed(CustomTopicAnimationAvatar__init__(
                         NewAvatarObject("CustomTopicAnimationAvatar"),
                         defaultFactory, factoryByTopic, pos),
                     UnboundAvatar)

\* AnimationAvatar.render_resource_packs
AnimationAvatar_render_resource_packs(o) ==
    IF ~HasAttr(o, "_current_animation")
    THEN [val |-> <<>>, exc |-> "AttributeError"]
    ELSE render_resource_packs(o.anims[o.cur])

\* The avatar whose current animation has been updated with outcome s.
WithCurrent(o, s) == [o |-> [o EXCEPT !.anims[o.cur] = s.o], exc |-> s.exc]

AnimationAvatar_update(o, pos) ==
    IF ~HasAttr(o, "_current_animation") THEN Raise(o, "AttributeError")
    ELSE WithCurrent(o, Animation_update(o.anims[o.cur], pos))

\* Lines 161-165 of TopicAnimationAvatar.update, given what is_finished() of
\* the current animation returned.
FallBackWhen(f, o) ==
    IF f.exc # "none" THEN Raise(o, f.exc)
    ELSE Ok(IF f.val THEN [o EXCEPT !.cur = "default"] ELSE o)

TopicAnimationAvatar_update(o, pos) ==
    IF ~HasAttr(o, "_default_animation") \/ ~HasAttr(o, "_current_animation")
    THEN Raise(o, "AttributeError")
    ELSE IF o.cur = "default" THEN AnimationAvatar_update(o, pos)
    ELSE Then(FallBackWhen(is_finished(o.anims[o.cur]), o), LAMBDA o1 :
         AnimationAvatar_update(o1, pos))

activate_animation_by_topic(o, topic) ==
    IF ~HasAttr(o, "_animation_by_topic") THEN Raise(o, "AttributeError")
    ELSE IF topic \notin Topics THEN Raise(o, "KeyError")
    ELSE Ok([o EXCEPT !.has = @ \cup {"_current_animation"}, !.cur = topic])

\* ----------------------------------------------------- what a session holds

NoRequest == [made |-> FALSE, cls |-> "", stays |-> <<>>]

\* What a call through a handle raises when the constructor that was to bind
\* the handle raised instead.
NoObject == "NameError"

\* A call of the session: the operation and, where it takes one, the topic.
Call(op, arg) == [op |-> op, arg |-> arg]

NoAvatarRequest ==
    [made |-> FALSE, default |-> NoFactory,
     byTopic |-> [t \in Topics |-> NoFactory]]

\* The default-animation factories a session's avatar class may carry: none
\* (CustomTopicAnimationAvatar as it stands) or one a subclass supplies.
DefaultFactories ==
    {NoFactory, Factory("CustomEndlessAnimation", <<1, 2>>)}

\* The stay ticks of the sprites of a session's topic animations.
TopicStays == {<<1>>, <<MaxStay, 1>>}

\* ---------------------------------------------------------------- vectors

Max(a, b) == IF a >= b THEN a ELSE b

Min(a, b) == IF a <= b THEN a ELSE b

Abs(x) == IF x < 0 THEN -x ELSE x

Sign(x) == IF x < 0 THEN -1 ELSE IF x > 0 THEN 1 ELSE 0

\* Vector.get_normalized_to_measurements with the default measurement point 0.
get_normalized_to_measurements(v, n) ==
    [i \in 1..Max(n, 0) |-> IF i <= Len(v) THEN v[i] ELSE 0]

\* an addition that maps over the operands as they are, stopping at the shorter
VectorAddZipped(a, b) == [i \in 1..Min(Len(a), Len(b)) |-> a[i] + b[i]]

\* Vector.__add__
VectorAdd(a, b) ==
    LET n == Max(Len(a), Len(b)) IN
    [i \in 1..n |-> get_normalized_to_measurements(a, n)[i]
                    + get_normalized_to_measurements(b, n)[i]]

\* Vector.get_reflected_by_coordinates() over every coordinate.
get_reflected_by_coordinates(v) == [i \in 1..Len(v) |-> -v[i]]

\* Vector.__sub__
VectorSub(a, b) == VectorAdd(a, get_reflected_by_coordinates(b))

Zero == <<0, 0>>

\* ------------------------------------------------------------- the geometry

\* Coordinates that are not whole (a float of the program) are fractions
\* <<numerator, denominator>> in lowest terms with a positive denominator.
RECURSIVE GCD(_, _)
GCD(a, b) == IF b = 0 THEN a ELSE GCD(b, a % b)

Frac(n, d) ==
    <<(Sign(d) * n) \div GCD(Abs(n), Abs(d)), Abs(d) \div GCD(Abs(n), Abs(d))>>

Num(i) == <<i, 1>>

FracAdd(x, y) == Frac(x[1] * y[2] + y[1] * x[2], x[2] * y[2])

FracMul(x, y) == Frac(x[1] * y[1], x[2] * y[2])

\* x / y for y other than 0
FracDiv(x, y) == Frac(x[1] * y[2], x[2] * y[1])

IsWhole(x) == x[2] = 1

\* a vector of whole coordinates as a vector of fractions
Nums(v) == [i \in 1..Len(v) |-> Num(v[i])]

\* math.sqrt of a fraction that is a square
sqrt(x) ==
    <<CHOOSE k \in 0..x[1] : k * k = x[1], CHOOSE k \in 1..x[2] : k * k = x[2]>>

RECURSIVE SumOfSquares(_, _)
SumOfSquares(v, i) ==
    IF i > Len(v) THEN Num(0)
    ELSE FracAdd(FracMul(v[i], v[i]), SumOfSquares(v, i + 1))

\* Vector.length
length(v) == sqrt(SumOfSquares(v, 1))

\* Vector.__add__ over coordinates that are fractions
FracVectorAdd(a, b) ==
    LET n == Max(Len(a), Len(b)) IN
    [i \in 1..n |-> FracAdd(IF i <= Len(a) THEN a[i] ELSE Num(0),
                            IF i <= Len(b) THEN b[i] ELSE Num(0))]

\* round(): to the nearest whole number, a half to the even one
round(x) ==
    LET floor == x[1] \div x[2]
        twice == 2 * (x[1] % x[2])
    IN  IF twice < x[2] THEN floor
        ELSE IF twice > x[2] THEN floor + 1
        ELSE IF floor % 2 = 0 THEN floor ELSE floor + 1

RECURSIVE Pow10(_)
Pow10(n) == IF n = 0 THEN 1 ELSE 10 * Pow10(n - 1)

AccurateNumberRounder == [class |-> "AccurateNumberRounder", shift |-> 0]

ShiftNumberRounder(rounder, shift) ==
    [class |-> "ShiftNumberRounder", shift |-> rounder.shift + shift]

\* NumberRounder.__call__: the value scaled up by 10^shift, rounded, scaled down
Rounded(rounder, x) ==
    FracDiv(Num(round(FracMul(x, Num(Pow10(rounder.shift))))),
            Num(Pow10(rounder.shift)))

\* Vector.get_rounded_by
get_rounded_by(v, rounder) == [i \in 1..Len(v) |-> Rounded(rounder, v[i])]

Rounders == {AccurateNumberRounder, ShiftNumberRounder(AccurateNumberRounder, 2)}

Distances == {1, 2}

\* VectorDivider.__init__
VectorDivider(distance_between_points, rounder) ==
    [distance_between_points |-> distance_between_points, rounder |-> rounder]

\* VirtualVector
VirtualVector(start_point, end_point) ==
    [start_point |-> start_point, end_point |-> end_point]

\* VirtualVector.value
value(vector) == Nums(VectorSub(vector.end_point, vector.start_point))

NoReport == [sign |-> FALSE, error |-> "no report"]

\* Report.create_error_report
create_error_report(error) == [sign |-> FALSE, error |-> error]

\* Divider.is_possible_to_divide
Divider_is_possible_to_divide(data) == [sign |-> TRUE, error |-> "none"]

\* VectorDivider.is_possible_to_divide: what the call returns and raises.
\* The message of the error report names `vector`, which is neither a local
\* nor a global of the method: formatting it raises NameError.
is_possible_to_divide(divider, data) ==
    IF length(value(data)) = Num(0)
    THEN [report |-> NoReport, exc |-> "NameError"]
    ELSE [report |-> Divider_is_possible_to_divide(data), exc |-> "none"]

NoPoints == <<>>

Raised(exc) == [points |-> NoPoints, exc |-> exc]

\* the point that __create_points reaches after `steps` additions of the step
PointAfter(start_point, steps, vector_to_next_point) ==
    FracVectorAdd(start_point,
                  [i \in 1..Len(vector_to_next_point) |->
                      FracMul(Num(steps), vector_to_next_point[i])])

\* a variant that leaves out the last point
create_points_short(divider, start_point, number, vector_to_next_point) ==
    [i \in 1..(number - 1) |->
        get_rounded_by(PointAfter(Nums(start_point), i - 1, vector_to_next_point),
                       divider.rounder)]

\* VectorDivider.__create_points
create_points(divider, start_point, number, vector_to_next_point) ==
    [i \in 1..number |->
        get_rounded_by(PointAfter(Nums(start_point), i - 1, vector_to_next_point),
                       divider.rounder)]

\* the rest of VectorDivider._divide, given the step
DivideBy(divider, vector, vector_to_next_point) ==
    LET number == FracAdd(FracDiv(length(value(vector)),
                                  length(vector_to_next_point)), Num(1))
    IN  IF number[1] <= 0 \/ ~IsWhole(number)
        THEN Raised("UnableToDivideVectorIntoPointsError")
        ELSE [points |-> create_points(divider, vector.start_point, number[1],
                                       vector_to_next_point),
              exc |-> "none"]

\* the rest of VectorDivider._divide, given the factor
DivideWith(divider, vector, factor) ==
    IF factor = Num(0) THEN Raised("ZeroDivisionError")
    ELSE DivideBy(divider, vector,
                  [i \in 1..Len(value(vector)) |-> FracDiv(value(vector)[i], factor)])

\* VectorDivider._divide
_divide(divider, vector) ==
    DivideWith(divider, vector,
               Rounded(divider.rounder,
                       FracDiv(length(value(vector)),
                               Num(divider.distance_between_points))))

\* Divider.__call__, given what the feasibility check returned
DivideChecked(divider, data, checked) ==
    IF checked.exc # "none" THEN Raised(checked.exc)
    ELSE IF ~checked.report.sign THEN Raised(checked.report.error)
    ELSE _divide(divider, data)

\* Divider.__call__
Divider__call__(divider, data) ==
    DivideChecked(divider, data, is_possible_to_divide(divider, data))

\* Line._vector_divider_factory
DefaultDivider == VectorDivider(1, ShiftNumberRounder(AccurateNumberRounder, 2))

NoLine ==
    [built |-> FALSE, first_point |-> <<>>, second_point |-> <<>>,
     all_available_points |-> NoPoints]

\* Line._update_all_available_points: what the divider returns and raises
_update_all_available_points(l) ==
    Divider__call__(DefaultDivider, VirtualVector(l.first_point, l.second_point))

\* Line.__init__, given what the first refresh of the cache did
LineWith(l, updated) ==
    IF updated.exc # "none" THEN [o |-> NoLine, exc |-> updated.exc]
    ELSE [o |-> [l EXCEPT !.all_available_points = updated.points], exc |-> "none"]

\* Line.__init__
Line__init__(first_point, second_point) ==
    LineWith([built |-> TRUE, first_point |-> first_point,
              second_point |-> second_point, all_available_points |-> NoPoints],
             _update_all_available_points(
                 [first_point |-> first_point, second_point |-> second_point]))

\* a setter, given what its refresh of the cache did: the refresh comes first
\* and divides the endpoints the line still has; the assignment follows.
AssignAfter(l, attr, new_point, updated) ==
    IF updated.exc # "none" THEN [o |-> l, exc |-> updated.exc]
    ELSE [o |-> [[l EXCEPT !.all_available_points = updated.points]
                    EXCEPT ![attr] = new_point],
          exc |-> "none"]

\* Line.first_point and Line.second_point setters
Assign(l, attr, new_point) ==
    AssignAfter(l, attr, new_point, _update_all_available_points(l))

\* a membership test that compares the point as it was given
is_point_inside_unrounded(l, point) ==
    \E i \in 1..Len(l.all_available_points) : l.all_available_points[i] = point

\* Line.is_point_inside
is_point_inside(l, point) ==
    \E i \in 1..Len(l.all_available_points) :
        l.all_available_points[i] = get_rounded_by(point, DefaultDivider.rounder)

\* the points and vectors the geometry is exercised with
GeoPoints == {<<x, y>> : x \in 0..LineLength, y \in 0..MaxRise}

AxisAligned(p, q) == p[1] = q[1] \/ p[2] = q[2]

Segments ==
    {VirtualVector(p, q) : <<p, q>> \in {pq \in GeoPoints \X GeoPoints :
                                            AxisAligned(pq[1], pq[2])}}

LineEnds == {<<x, 0>> : x \in {0, LineLength \div 2, LineLength}}

Offsets == {Num(0), Frac(1, 250), Frac(1, 2), Num(1)}

QueryPoints == {<<Num(x), y>> : x \in 0..LineLength, y \in Offsets}

Addends == UNION {[1..n -> 1..MaxAddend] : n \in 0..MaxDim}

NoDivision ==
    [done |-> FALSE, divider |-> DefaultDivider,
     vector |-> VirtualVector(<<>>, <<>>),
     checked |-> [report |-> NoReport, exc |-> "none"],
     result |-> Raised("none")]

NoAnswer == [done |-> FALSE, point |-> <<>>, inside |-> FALSE]

NoSum ==
    [done |-> FALSE, first |-> <<>>, second |-> <<>>, sum |-> <<>>,
     swapped |-> <<>>, first_after |-> <<>>, second_after |-> <<>>]

GeomIdle ==
    /\ division = NoDivision
    /\ line = NoLine
    /\ lineErr = "none"
    /\ assigned = <<>>
    /\ asked = NoAnswer
    /\ added = NoSum

\* A divider is configured and called on a vector.
Divide ==
    /\ GeomIdle
    /\ \E vector \in Segments, distance \in Distances, rounder \in Rounders :
          division' =
              [done |-> TRUE, divider |-> VectorDivider(distance, rounder),
               vector |-> vector,
               checked |-> is_possible_to_divide(VectorDivider(distance, rounder),
                                                 vector),
               result |-> Divider__call__(VectorDivider(distance, rounder), vector)]
    /\ UNCHANGED <<line, lineErr, assigned, asked, added>>
    /\ UNCHANGED <<sessionVars, worldVars, appVars, renderVars>>

\* Two vectors are added, in both orders.
AddVectors ==
    /\ GeomIdle
    /\ \E a \in Addends, b \in Addends :
          added' = [done |-> TRUE, first |-> a, second |-> b,
                    sum |-> VectorAdd(a, b), swapped |-> VectorAdd(b, a),
                    first_after |-> a, second_after |-> b]
    /\ UNCHANGED <<division, line, lineErr, assigned, asked>>
    /\ UNCHANGED <<sessionVars, worldVars, appVars, renderVars>>

\* Line(first_point, second_point)
ConstructLine ==
    /\ GeomIdle
    /\ \E p \in LineEnds, q \in LineEnds :
          /\ line' = Line__init__(p, q).o
          /\ lineErr' = Line__init__(p, q).exc
    /\ UNCHANGED <<division, assigned, asked, added>>
    /\ UNCHANGED <<sessionVars, worldVars, appVars, renderVars>>

\* line.first_point = p or line.second_point = p
AssignPoint(attr) ==
    /\ line.built
    /\ ~asked.done
    /\ Len(assigned) < MaxAssign
    /\ \E p \in LineEnds :
          /\ line' = Assign(line, attr, p).o
          /\ lineErr' = Assign(line, attr, p).exc
          /\ assigned' = Append(assigned,
                                [attr |-> attr, point |-> p,
                                 before |-> <<line.first_point, line.second_point>>])
    /\ asked' = NoAnswer
    /\ UNCHANGED <<division, added>>
    /\ UNCHANGED <<sessionVars, worldVars, appVars, renderVars>>

AssignFirstPoint == AssignPoint("first_point")

AssignSecondPoint == AssignPoint("second_point")

\* line.is_point_inside(q)
AskInside ==
    /\ line.built
    /\ ~asked.done
    /\ \E q \in QueryPoints :
          asked' = [done |-> TRUE, point |-> q, inside |-> is_point_inside(line, q)]
    /\ UNCHANGED <<division, line, lineErr, assigned, added>>
    /\ UNCHANGED <<sessionVars, worldVars, appVars, renderVars>>

\* ----------------------------------------------------------- the renderer

\* The resource types of pygame_resources the adapter names, and a type it
\* does not: that of None, the resource a UnitSpawner's avatar is built with.
ResourceTypes ==
    {"Surface", "Polygon", "Line", "Lines", "Circle", "Rectangle", "Ellipse",
     "Arc"}

OtherTypes == {"NoneType"}

Registration(type, routine) == [type |-> type, routine |-> routine]

\* An adapter that registers nothing for arcs.
RegistrationsWithoutArc ==
    <<Registration("Surface", "_handle_pygame_surface"),
      Registration("Polygon", "_handle_pygame_polygon"),
      Registration("Line", "_handle_pygame_line"),
      Registration("Lines", "_handle_pygame_lines"),
      Registration("Circle", "_handle_pygame_circle"),
      Registration("Rectangle", "_handle_pygame_rect"),
      Registration("Ellipse", "_handle_pygame_ellipse")>>

\* The @Render.resource_handler registrations of PygameSurfaceRender, in the
\* order of the class body.
Registrations ==
    <<Registration("Surface", "_handle_pygame_surface"),
      Registration("Polygon", "_handle_pygame_polygon"),
      Registration("Line", "_handle_pygame_line"),
      Registration("Lines", "_handle_pygame_lines"),
      Registration("Circle", "_handle_pygame_circle"),
      Registration("Rectangle", "_handle_pygame_rect"),
      Registration("Ellipse", "_handle_pygame_ellipse"),
      Registration("Arc", "_handle_pygame_arc")>>

\* The routines registered for a resource type.
RoutinesFor(type) ==
    {Registrations[i].routine :
        i \in {j \in 1..Len(Registrations) : Registrations[j].type = type}}

\* A resource is known to the renderer by its runtime type.
ResourceOfType(type) == [type |-> type]

\* The packs a renderer may be handed for one frame.
PackSeqs ==
    UNION {[1..n -> {ResourcePack(ResourceOfType(t), p) :
                        t \in ResourceTypes \cup OtherTypes, p \in Points}] :
             n \in 0..MaxPacks}

\* A call on the surface: the routine that made it and the pack's point.
DrawCall(routine, point) == [by |-> routine, at |-> point]

\* PygameSurfaceRender._clear_surface
_clear_surface == <<DrawCall("fill", Zero)>>

\* A renderer that passes over a pack it has no routine for.
RECURSIVE DrawSkipping(_, _, _)
DrawSkipping(ps, i, st) ==
    IF i > Len(ps) THEN st
    ELSE IF RoutinesFor(ps[i].resource.type) = {}
    THEN DrawSkipping(ps, i + 1, st)
    ELSE DrawSkipping(ps, i + 1,
            [st EXCEPT !.calls = Append(@,
                DrawCall(CHOOSE r \in RoutinesFor(ps[i].resource.type) : TRUE,
                         ps[i].point))])

\* Render: packs ps[i..] are drawn one after the other, each by the routine
\* registered for the type of its resource; a pack of a type without a
\* routine ends the frame with NotFound.
RECURSIVE DrawPacks(_, _, _)
DrawPacks(ps, i, st) ==
    IF i > Len(ps) \/ st.exc # "none" THEN st
    ELSE IF RoutinesFor(ps[i].resource.type) = {}
    THEN [st EXCEPT !.exc = "NotFound"]
    ELSE DrawPacks(ps, i + 1,
            [st EXCEPT !.calls = Append(@,
                DrawCall(CHOOSE r \in RoutinesFor(ps[i].resource.type) : TRUE,
                         ps[i].point))])

\* One frame: the surface is cleared, then the packs are drawn.
DrawFrame(ps) == DrawPacks(ps, 1, [calls |-> _clear_surface, exc |-> "none"])

\* The renderer is handed the packs of a frame.
Present ==
    /\ toDraw = <<>>
    /\ surface = <<>>
    /\ \E ps \in PackSeqs : toDraw' = ps
    /\ surface' = <<>>
    /\ renderErr' = "pending"
    /\ UNCHANGED <<sessionVars, worldVars, appVars, geomVars>>

\* The renderer draws the frame.
RenderFrame ==
    /\ renderErr = "pending"
    /\ surface' = DrawFrame(toDraw).calls
    /\ renderErr' = DrawFrame(toDraw).exc
    /\ UNCHANGED toDraw
    /\ UNCHANGED <<sessionVars, worldVars, appVars, geomVars>>

RenderIdle ==
    /\ toDraw = <<>>
    /\ surface = <<>>
    /\ renderErr = "pending"

LibIdle == RenderIdle /\ GeomIdle

\* ------------------------------------------------------------- the world

\* A world whose stage list names the activator first.
StagesActivatorFirst ==
    <<"WorldProcessesActivator", "UnitMover", "UnitMover",
      "UnitAvatarRenderResourceParser">>

\* A world whose stage list resolves the avatars before the activation.
StagesResolverEarly ==
    <<"UnitMover", "UnitAvatarRenderResourceParser",
      "WorldProcessesActivator", "UnitMover">>

\* The stage list the example hands to CustomWorld.
Stages ==
    <<"UnitMover", "WorldProcessesActivator", "UnitMover",
      "UnitAvatarRenderResourceParser">>

NoStage == Len(Stages) + 1

\* TestUnit._speed_limit
SpeedLimit == 2

\* randint(range.start, range.stop) for each range of the spawn zone
\* (range(ZoneW), range(ZoneH)): both ends are included.
SpawnPoints == {<<x, y>> : x \in 0..ZoneW, y \in 0..ZoneH}

\* A unit of the world.  vec is the moving process's vector_to_next_point,
\* step the displacement the process has computed and the mover has not yet
\* applied, procs the spawn processes add_process() has queued; born, seen,
\* resolved, pos0, vec0 and tickStart record the tick the unit was added in,
\* the stages that have handled it in the current tick, the tick its avatar
\* was last resolved in, and its position and target at the start and at the
\* beginning of the current tick.
Unit(kind, pos, limit, vec, resource, born) ==
    [kind |-> kind, pos |-> pos, limit |-> limit, vec |-> vec, step |-> Zero,
     avatar |-> NewPrimitiveAvatar(resource, pos).o, procs |-> <<>>,
     born |-> born, seen |-> {}, resolved |-> 0,
     pos0 |-> pos, vec0 |-> vec, tickStart |-> pos]

TestUnit(pos, vec, born) == Unit("TestUnit", pos, SpeedLimit, vec, "r1", born)

UnitSpawner(pos) == Unit("UnitSpawner", pos, 0, Zero, "r2", 0)

\* The targets the hero unit may start with.
HeroTargets == {Zero, <<TargetDistance, 0>>, <<0, -3>>}

InitialUnits(vec) == <<TestUnit(Zero, vec, 0), UnitSpawner(<<1, 1>>)>>

\* A mover that passes over the units added in the tick under way.
MovableSinceTickStart(u) == u.kind = "TestUnit" /\ u.born < tickNo

\* The units UnitMover applies to: those with a moving process.
Movable(u) == u.kind = "TestUnit"

SpawnedCount == Cardinality({i \in 1..Len(units) : units[i].born > 0})

\* A moving process without a speed limit: the whole way in one step.
WholeStep(vec, limit) == vec

\* The speed-limited moving process: the step toward the target, no longer
\* than the limit (the targets of the model lie along one axis).
BoundedStep(vec, limit) ==
    [i \in 1..Len(vec) |-> Sign(vec[i]) * Min(Abs(vec[i]), limit)]

\* The moving process of a unit, activated: it computes the next step and
\* takes it off the target.
ActivateMoving(u) ==
    LET d == BoundedStep(u.vec, u.limit) IN
    [u EXCEPT !.step = d, !.vec = VectorSub(u.vec, d)]

\* UnitSpawner.update: with the timer over, a spawn process for a unit at a
\* random point is queued (and the timer restarted).
UnitSpawner_update(u, over, point) ==
    IF over THEN [u EXCEPT !.procs = Append(@, point)] ELSE u

\* TestUnit.update does nothing.
Unit_update(u, over, point) ==
    IF u.kind = "UnitSpawner" THEN UnitSpawner_update(u, over, point) ELSE u

\* The units the queued UnitSpawnProcesses of us[i..] add to the world.
RECURSIVE SpawnedBy(_, _, _)
SpawnedBy(us, i, tick) ==
    IF i > Len(us) THEN <<>>
    ELSE [k \in 1..Len(us[i].procs) |-> TestUnit(us[i].procs[k], Zero, tick)]
         \o SpawnedBy(us, i + 1, tick)

Handled(u) == [u EXCEPT !.seen = @ \cup {stageIdx}]

StageDone(stage) ==
    /\ stageIdx' = stageIdx + 1
    /\ stageLog' = Append(stageLog, stage)

\* UnitMover: every movable unit takes the step its moving process computed.
MoveStage ==
    /\ stageIdx <= Len(Stages)
    /\ Stages[stageIdx] = "UnitMover"
    /\ units' = [i \in 1..Len(units) |->
                   IF Movable(units[i])
                   THEN Handled([units[i] EXCEPT
                                   !.pos = VectorAdd(units[i].pos, units[i].step),
                                   !.step = Zero])
                   ELSE units[i]]
    /\ StageDone("UnitMover")
    /\ UNCHANGED <<timerOver, tickNo, packs>>

\* WorldProcessesActivator: every unit is updated and its processes are
\* activated; a spawn process adds its unit to the end of the collection.
ActivateStage ==
    /\ stageIdx <= Len(Stages)
    /\ Stages[stageIdx] = "WorldProcessesActivator"
    /\ \E point \in IF timerOver THEN SpawnPoints ELSE {Zero} :
         LET updated == [i \in 1..Len(units) |->
                           Handled(Unit_update(ActivateMoving(units[i]),
                                               timerOver, point))]
         IN units' = [i \in 1..Len(units) |-> [updated[i] EXCEPT !.procs = <<>>]]
                     \o SpawnedBy(updated, 1, tickNo)
    /\ timerOver' = FALSE
    /\ StageDone("WorldProcessesActivator")
    /\ UNCHANGED <<tickNo, packs>>

\* UnitAvatarRenderResourceParser: every unit's avatar is updated and its
\* resource packs are collected for the renderer.
ResolveStage ==
    /\ stageIdx <= Len(Stages)
    /\ Stages[stageIdx] = "UnitAvatarRenderResourceParser"
    /\ units' = [i \in 1..Len(units) |->
                   Handled([units[i] EXCEPT
                      !.avatar = SingleResourcePackAvatar_update(@, units[i].pos).o,
                      !.resolved = tickNo])]
    /\ packs' = [i \in 1..Len(units) |->
                   render_resource_packs(units'[i].avatar).val[1]]
    /\ StageDone("UnitAvatarRenderResourceParser")
    /\ UNCHANGED <<timerOver, tickNo>>

\* A tick begins: its first stage runs next.
StartTick ==
    /\ tickNo' = tickNo + 1
    /\ stageIdx' = 1
    /\ stageLog' = <<>>
    /\ units' = [i \in 1..Len(units) |->
                   [units[i] EXCEPT !.seen = {}, !.tickStart = units[i].pos]]
    /\ UNCHANGED <<timerOver, packs>>

\* The world is ticked on its own.
BeginTick ==
    /\ stageIdx = NoStage
    /\ tickNo < MaxTicks
    /\ StartTick
    /\ UNCHANGED <<sessionVars, appVars, libVars>>

\* Time passes: the spawner's timer runs out.
TimerRunsOut ==
    /\ ~timerOver
    /\ SpawnedCount < MaxSpawned
    /\ timerOver' = TRUE
    /\ UNCHANGED <<units, tickNo, stageIdx, stageLog, packs>>
    /\ UNCHANGED <<sessionVars, appVars, libVars>>

WorldMove == MoveStage /\ UNCHANGED <<sessionVars, appVars, libVars>>

WorldActivate == ActivateStage /\ UNCHANGED <<sessionVars, appVars, libVars>>

WorldResolve == ResolveStage /\ UNCHANGED <<sessionVars, appVars, libVars>>

SessionIdle ==
    /\ unitPos = Zero
    /\ prim = NewPrimitiveAvatar("r1", Zero).o
    /\ anim = Unbound
    /\ animReq = NoRequest
    /\ avatar = UnboundAvatar
    /\ avatarReq = NoAvatarRequest
    /\ calls = 0
    /\ err = "none"
    /\ last = Call("start", "")

WorldIdle ==
    /\ units = InitialUnits(Zero)
    /\ timerOver = FALSE
    /\ tickNo = 0
    /\ stageIdx = NoStage
    /\ stageLog = <<>>
    /\ packs = <<>>

\* ------------------------------------------------------- the application

\* A loop that ticks the world before it polls the events.
LoopPhasesTickFirst == <<"tick", "poll", "render", "sleep">>

\* The phases of one iteration of the loop the example assembles: the event
\* controller, the world's tick, the renderers, the clock's sleep.
LoopPhases == <<"poll", "tick", "render", "sleep">>

\* The handlers the example registers with SyncPygameEventController.
ExampleHandlers == <<"ExitEventHandler", "MainHeroManagement">>

\* PygameKeyboardController in the event controller's place: its loop over
\* the polled events does one thing, exit() on a QUIT event.
KeyboardController == <<"PygameKeyboardController">>

\* The handler tuples of the model: the example's, one with a second
\* handler of the hero's keys, and the keyboard controller.
HandlerChains ==
    {ExampleHandlers,
     <<"ExitEventHandler", "MainHeroManagement", "MainHeroManagement">>,
     KeyboardController}

NoKey == ""

Event(type, key) == [type |-> type, key |-> key]

\* The events the host queue delivers in the model.
Events ==
    {Event("QUIT", NoKey), Event("KEYUP", "K_RIGHT")}
    \cup {Event("KEYDOWN", k) : k \in {"K_RIGHT", "K_a", "K_SPACE"}}

EventQueues == UNION {[1..n -> Events] : n \in 0..MaxEvents}

_right_movement_keys == {"K_RIGHT", "K_d"}

_left_movement_keys == {"K_LEFT", "K_a"}

_up_movement_keys == {"K_UP", "K_w"}

_down_movement_keys == {"K_DOWN", "K_s"}

\* The key codes a handler declares; ExitEventHandler declares none.
_support_keys(h) ==
    IF h = "MainHeroManagement"
    THEN _right_movement_keys \cup _left_movement_keys
         \cup _up_movement_keys \cup _down_movement_keys
    ELSE {}

DeclaresKeys(h) == h = "MainHeroManagement"

_support_event_types(h) ==
    IF h = "MainHeroManagement" THEN {"KEYDOWN"} ELSE {"QUIT"}

\* A handler supports an event of a type it declares and, where it declares
\* key codes, of one of those keys.
Supports(h, e) ==
    /\ e.type \in _support_event_types(h)
    /\ DeclaresKeys(h) => e.key \in _support_keys(h)

\* MainHeroManagement._handle: the impulse of the key becomes the hero's
\* vector_to_next_point.
MainHeroManagement__handle(e, limit) ==
    LET i0 == Zero
        i1 == IF e.key \in _right_movement_keys
              THEN VectorAdd(i0, <<limit, 0>>) ELSE i0
        i2 == IF e.key \in _left_movement_keys
              THEN VectorSub(i1, <<limit, 0>>) ELSE i1
        i3 == IF e.key \in _up_movement_keys
              THEN VectorSub(i2, <<0, limit>>) ELSE i2
        i4 == IF e.key \in _down_movement_keys
              THEN VectorAdd(i3, <<0, limit>>) ELSE i3
    IN i4

\* What the handlers of one event work on: the hero's target, whether the
\* process has exited, and the handlers run so far.
DispatchState(vec, log) == [vec |-> vec, exited |-> FALSE, invoked |-> log]

\* Handlers that let a window-close event pass.
HandleWithoutExit(h, k, i, e, st) ==
    LET noted == [st EXCEPT !.invoked = Append(@, <<k, i>>)] IN
    IF h = "MainHeroManagement"
    THEN [noted EXCEPT !.vec = MainHeroManagement__handle(e, SpeedLimit)]
    ELSE noted

\* a handler of the hero's keys that adds the impulse to the vector
HandleAccumulating(h, k, i, e, st) ==
    LET noted == [st EXCEPT !.invoked = Append(@, <<k, i>>)] IN
    IF h \in {"ExitEventHandler", "PygameKeyboardController"}
    THEN [noted EXCEPT !.exited = TRUE]
    ELSE [noted EXCEPT
            !.vec = VectorAdd(@, MainHeroManagement__handle(e, SpeedLimit))]

\* One handler handles event number k of the queue; ExitEventHandler and
\* PygameKeyboardController end the process.
Handle(h, k, i, e, st) ==
    LET noted == [st EXCEPT !.invoked = Append(@, <<k, i>>)] IN
    IF h \in {"ExitEventHandler", "PygameKeyboardController"}
    THEN [noted EXCEPT !.exited = TRUE]
    ELSE [noted EXCEPT !.vec = MainHeroManagement__handle(e, SpeedLimit)]

\* The handlers from the last registered one back to hs[i].
RECURSIVE RunHandlersBackwards(_, _, _, _)
RunHandlersBackwards(hs, i, k, st) ==
    IF i > Len(hs) \/ st.exited THEN st
    ELSE LET j == Len(hs) + 1 - i IN
         RunHandlersBackwards(hs, i + 1, k,
            IF Supports(hs[j], queue[k]) THEN Handle(hs[j], k, j, queue[k], st)
            ELSE st)

\* The event controller hands event number k to the handlers hs[i..] in
\* registration order; a handler that does not support the event is passed
\* over, and nothing runs once the process has exited.
RECURSIVE RunHandlers(_, _, _, _)
RunHandlers(hs, i, k, st) ==
    IF i > Len(hs) \/ st.exited THEN st
    ELSE RunHandlers(hs, i + 1, k,
            IF Supports(hs[i], queue[k]) THEN Handle(hs[i], k, i, queue[k], st)
            ELSE st)

PhaseIs(name) ==
    /\ appPc = "idle"
    /\ LoopPhases[phaseIdx] = name
    /\ phaseIdx = 1 => iter < MaxIter

\* A phase begins; the first phase begins an iteration.
PhaseBegins(name) ==
    /\ phaseLog' = IF phaseIdx = 1 THEN <<name>> ELSE Append(phaseLog, name)
    /\ iter' = IF phaseIdx = 1 THEN iter + 1 ELSE iter

PhaseEnds == phaseIdx' = IF phaseIdx = Len(LoopPhases) THEN 1 ELSE phaseIdx + 1

\* The event controller drains the host queue.
Poll ==
    /\ PhaseIs("poll")
    /\ PhaseBegins("poll")
    /\ \E q \in EventQueues : queue' = q
    /\ evIdx' = 1
    /\ invoked' = <<>>
    /\ appPc' = "dispatch"
    /\ UNCHANGED <<handlers, phaseIdx, rendered>>
    /\ UNCHANGED <<sessionVars, worldVars, libVars>>

\* The next polled event goes through the handlers.
DispatchEvent ==
    /\ appPc = "dispatch"
    /\ evIdx <= Len(queue)
    /\ LET st == RunHandlers(handlers, 1, evIdx,
                             DispatchState(units[1].vec, invoked))
       IN /\ invoked' = st.invoked
          /\ units' = [units EXCEPT ![1].vec = st.vec]
          /\ appPc' = IF st.exited THEN "exited" ELSE "dispatch"
    /\ evIdx' = evIdx + 1
    /\ UNCHANGED <<handlers, phaseIdx, iter, queue, phaseLog, rendered>>
    /\ UNCHANGED <<timerOver, tickNo, stageIdx, stageLog, packs>>
    /\ UNCHANGED <<sessionVars, libVars>>

\* Every polled event has been dispatched.
DispatchDone ==
    /\ appPc = "dispatch"
    /\ evIdx > Len(queue)
    /\ appPc' = "idle"
    /\ PhaseEnds
    /\ UNCHANGED <<handlers, iter, queue, evIdx, invoked, phaseLog, rendered>>
    /\ UNCHANGED <<sessionVars, worldVars, libVars>>

\* The loop ticks the world.
AppTick ==
    /\ PhaseIs("tick")
    /\ PhaseBegins("tick")
    /\ tickNo < MaxTicks
    /\ StartTick
    /\ appPc' = "stages"
    /\ UNCHANGED <<handlers, phaseIdx, queue, evIdx, invoked, rendered>>
    /\ UNCHANGED <<sessionVars, libVars>>

AppStage ==
    /\ appPc = "stages"
    /\ \/ MoveStage
       \/ ActivateStage
       \/ ResolveStage
    /\ UNCHANGED <<sessionVars, appVars, libVars>>

\* The last stage of the tick has run.
TickDone ==
    /\ appPc = "stages"
    /\ stageIdx = NoStage
    /\ appPc' = "idle"
    /\ PhaseEnds
    /\ UNCHANGED <<handlers, iter, queue, evIdx, invoked, phaseLog, rendered>>
    /\ UNCHANGED <<sessionVars, worldVars, libVars>>

\* The renderers draw the resource packs the tick collected.
Render ==
    /\ PhaseIs("render")
    /\ PhaseBegins("render")
    /\ rendered' = packs
    /\ PhaseEnds
    /\ UNCHANGED <<handlers, appPc, queue, evIdx, invoked>>
    /\ UNCHANGED <<sessionVars, worldVars, libVars>>

\* The clock sleeps the rest of the frame away.
Sleep ==
    /\ PhaseIs("sleep")
    /\ PhaseBegins("sleep")
    /\ PhaseEnds
    /\ UNCHANGED <<handlers, appPc, queue, evIdx, invoked, rendered>>
    /\ UNCHANGED <<sessionVars, worldVars, libVars>>

AppIdle ==
    /\ handlers = ExampleHandlers
    /\ appPc = "idle"
    /\ phaseIdx = 1
    /\ iter = 0
    /\ queue = <<>>
    /\ evIdx = 1
    /\ invoked = <<>>
    /\ phaseLog = <<>>
    /\ rendered = <<>>

InitWorld ==
    /\ SessionIdle
    /\ AppIdle
    /\ LibIdle
    /\ \E vec \in HeroTargets : units = InitialUnits(vec)
    /\ timerOver \in BOOLEAN
    /\ tickNo = 0
    /\ stageIdx = NoStage
    /\ stageLog = <<>>
    /\ packs = <<>>

NextWorld ==
    \/ BeginTick
    \/ WorldMove
    \/ WorldActivate
    \/ WorldResolve
    \/ TimerRunsOut

SpecWorld == InitWorld /\ [][NextWorld]_vars

\* The application from run() on; the spawner's Timer(3) does not run out in
\* the first iterations of a loop that sleeps to 60 iterations a second.
InitApp ==
    /\ SessionIdle
    /\ WorldIdle
    /\ LibIdle
    /\ handlers \in HandlerChains
    /\ appPc = "idle"
    /\ phaseIdx = 1
    /\ iter = 0
    /\ queue = <<>>
    /\ evIdx = 1
    /\ invoked = <<>>
    /\ phaseLog = <<>>
    /\ rendered = <<>>

NextApp ==
    \/ Poll
    \/ DispatchEvent
    \/ DispatchDone
    \/ AppTick
    \/ AppStage
    \/ TickDone
    \/ Render
    \/ Sleep

SpecApp == InitApp /\ [][NextApp]_vars

InitRender ==
    /\ SessionIdle
    /\ WorldIdle
    /\ AppIdle
    /\ LibIdle

NextRender ==
    \/ Present
    \/ RenderFrame

SpecRender == InitRender /\ [][NextRender]_vars

InitGeometry ==
    /\ SessionIdle
    /\ WorldIdle
    /\ AppIdle
    /\ LibIdle

NextGeometry ==
    \/ Divide
    \/ AddVectors
    \/ ConstructLine
    \/ AssignFirstPoint
    \/ AssignSecondPoint
    \/ AskInside

SpecGeometry == InitGeometry /\ [][NextGeometry]_vars

\* ------------------------------------------------------------- the session

Init ==
    /\ unitPos \in Points
    /\ prim = NewPrimitiveAvatar("r1", unitPos).o
    /\ anim = Unbound
    /\ animReq = NoRequest
    /\ avatar = UnboundAvatar
    /\ avatarReq = NoAvatarRequest
    /\ calls = 0
    /\ err = "none"
    /\ last = Call("start", "")
    /\ WorldIdle
    /\ AppIdle
    /\ LibIdle

\* The unit is moved: PositionalUnit.position is rebound to another Vector.
MoveUnit ==
    /\ \E p \in Points \ {unitPos} : unitPos' = p
    /\ last' = Call("move", "")
    /\ UNCHANGED <<worldVars, appVars, libVars>>
    /\ UNCHANGED <<prim, anim, animReq, avatar, avatarReq, calls, err>>

PrimUpdate ==
    /\ LET s == SingleResourcePackAvatar_update(prim, unitPos) IN
         prim' = s.o /\ err' = s.exc
    /\ last' = Call("prim.update", "")
    /\ UNCHANGED <<worldVars, appVars, libVars>>
    /\ UNCHANGED <<unitPos, anim, animReq, avatar, avatarReq, calls>>

PrimSetResource ==
    /\ \E r \in Resources :
         LET s == SetRenderResource(prim, r) IN prim' = s.o /\ err' = s.exc
    /\ last' = Call("prim.render_resource", "")
    /\ UNCHANGED <<worldVars, appVars, libVars>>
    /\ UNCHANGED <<unitPos, anim, animReq, avatar, avatarReq, calls>>

ConstructAnimation ==
    /\ ~animReq.made
    /\ \E cls \in AnimationClasses, stays \in SpriteSeqs :
         LET s == NewAnimation(cls, SpritesOf(stays), unitPos) IN
         /\ animReq' = [made |-> TRUE, cls |-> cls, stays |-> stays]
         /\ anim' = s.o
         /\ err' = s.exc
    /\ last' = Call("anim.new", "")
    /\ UNCHANGED <<worldVars, appVars, libVars>>
    /\ UNCHANGED <<unitPos, prim, avatar, avatarReq, calls>>

AnimUpdate ==
    /\ animReq.made
    /\ calls < MaxCalls
    /\ calls' = calls + 1
    /\ IF ~anim.bound THEN anim' = anim /\ err' = NoObject
       ELSE LET s == Animation_update(anim, unitPos) IN
            anim' = s.o /\ err' = s.exc
    /\ last' = Call("anim.update", "")
    /\ UNCHANGED <<worldVars, appVars, libVars>>
    /\ UNCHANGED <<unitPos, prim, animReq, avatar, avatarReq>>

ConstructAvatar ==
    /\ ~avatarReq.made
    /\ \E d \in DefaultFactories, stays \in TopicStays :
         LET byTopic == [t \in Topics |-> Factory("CustomAnimation", stays)]
             s == NewTopicAvatar(d, byTopic, unitPos) IN
         /\ avatarReq' = [made |-> TRUE, default |-> d, byTopic |-> byTopic]
         /\ avatar' = s.o
         /\ err' = s.exc
    /\ last' = Call("avatar.new", "")
    /\ UNCHANGED <<worldVars, appVars, libVars>>
    /\ UNCHANGED <<unitPos, prim, anim, animReq, calls>>

AvatarActivate ==
    /\ avatarReq.made
    /\ \E topic \in TopicArgs :
         /\ IF ~avatar.bound THEN avatar' = avatar /\ err' = NoObject
            ELSE LET s == activate_animation_by_topic(avatar, topic) IN
                 avatar' = s.o /\ err' = s.exc
         /\ last' = Call("avatar.activate", topic)
    /\ UNCHANGED <<worldVars, appVars, libVars>>
    /\ UNCHANGED <<unitPos, prim, anim, animReq, avatarReq, calls>>

AvatarUpdate ==
    /\ avatarReq.made
    /\ IF ~avatar.bound THEN avatar' = avatar /\ err' = NoObject
       ELSE LET s == TopicAnimationAvatar_update(avatar, unitPos) IN
            avatar' = s.o /\ err' = s.exc
    /\ last' = Call("avatar.update", "")
    /\ UNCHANGED <<worldVars, appVars, libVars>>
    /\ UNCHANGED <<unitPos, prim, anim, animReq, avatarReq, calls>>

Next ==
    \/ MoveUnit
    \/ PrimUpdate
    \/ PrimSetResource
    \/ ConstructAnimation
    \/ AnimUpdate
    \/ ConstructAvatar
    \/ AvatarActivate
    \/ AvatarUpdate

Spec == Init /\ [][Next]_vars

\* ------------------------------------------------ what the session observes

\* anim.is_finished() as the session evaluates it now.
FinishedNow ==
    IF ~anim.bound THEN [val |-> FALSE, exc |-> NoObject] ELSE is_finished(anim)

\* anim._active_sprite as the session evaluates it now.
ActiveSpriteNow ==
    IF ~anim.bound THEN [val |-> Sprite("unset", 0), exc |-> NoObject]
    ELSE _active_sprite(anim)

\* anim.render_resource_packs and avatar.render_resource_packs now.
AnimPacksNow ==
    IF ~anim.bound THEN [val |-> <<>>, exc |-> NoObject]
    ELSE render_resource_packs(anim)

AvatarPacksNow ==
    IF ~avatar.bound THEN [val |-> <<>>, exc |-> NoObject]
    ELSE AnimationAvatar_render_resource_packs(avatar)

AllAt(ps, pos) == \A i \in 1..Len(ps) : ps[i].point = pos

FiniteRequested == animReq.made /\ animReq.cls = "CustomAnimation"

EndlessRequested == animReq.made /\ animReq.cls = "CustomEndlessAnimation"

\* -------------------------------------------------------------- properties

\* C1: a finite animation whose sprites stay t1..tk ticks reports
\* is_finished() false after fewer than t1+...+tk update() calls and true
\* after exactly that many, and the update() call after that fails with
\* AnimationAlreadyFinishedError and with no other error.
C1_FiniteAnimationFinishes ==
    FiniteRequested =>
        LET total == SumStay(animReq.stays, 1) IN
        /\ calls < total => FinishedNow.exc = "none" /\ ~FinishedNow.val
        /\ calls = total => FinishedNow.exc = "none" /\ FinishedNow.val
        /\ (calls = total + 1 /\ last.op = "anim.update") =>
               err = "AnimationAlreadyFinishedError"

\* C2: every update() call on an endless animation succeeds, and an update()
\* of a finished endless animation shows the first sprite again with every
\* sprite's remaining ticks restored (the first one already counted down by
\* this update).
C2_EndlessAnimationLoops ==
    [][(EndlessRequested /\ last'.op = "anim.update" /\ calls' = calls + 1) =>
          /\ err' = "none"
          /\ (FinishedNow.exc = "none" /\ FinishedNow.val) =>
                /\ anim'.pack.resource = anim.sprites[1].resource
                /\ \A i \in 1..Len(anim.sprites) :
                      anim'.sprites[i].real_stay_ticks =
                          anim.sprites[i].max_stay_ticks - (IF i = 1 THEN 1 ELSE 0)
      ]_vars

\* C3: on a topic-animation avatar, activating a registered topic exposes
\* the topic animation's packs, no update() call of the avatar raises, and
\* the update() after the topic animation has finished runs the default
\* animation again.
C3_TopicFallbackNeverRaises ==
    /\ (last.op = "avatar.activate" /\ last.arg \in Topics) =>
          /\ err = "none"
          /\ avatar.cur = last.arg
          /\ AvatarPacksNow.exc = "none"
          /\ AvatarPacksNow.val = render_resource_packs(avatar.anims[last.arg]).val
    /\ last.op = "avatar.update" =>
          /\ err = "none"
          /\ \A t \in Topics :
                (is_finished(avatar.anims[t]).exc = "none"
                 /\ is_finished(avatar.anims[t]).val) => avatar.cur # t

\* C4: whatever update() calls were made on an animation, its cursor names
\* one of its sprites, so that the active sprite and is_finished() can be
\* evaluated.
C4_CursorNamesASprite ==
    animReq.made =>
        /\ anim.idx <= Len(anim.sprites) - 1
        /\ ActiveSpriteNow.exc = "none"
        /\ FinishedNow.exc = "none"

\* C5: for every kind of avatar, after each of its update() calls every pack
\* it exposes is at the unit's current position, and a topic switch too
\* leaves packs that can be exposed.
C5_PacksFollowTheUnit ==
    /\ last.op = "prim.update" =>
          /\ err = "none"
          /\ render_resource_packs(prim).exc = "none"
          /\ AllAt(render_resource_packs(prim).val, unitPos)
    /\ last.op = "anim.update" =>
          /\ err = "none"
          /\ AnimPacksNow.exc = "none"
          /\ AllAt(AnimPacksNow.val, unitPos)
    /\ last.op = "avatar.update" =>
          /\ err = "none"
          /\ AvatarPacksNow.exc = "none"
          /\ AllAt(AvatarPacksNow.val, unitPos)
    /\ (last.op = "avatar.activate" /\ last.arg \in Topics) =>
          AvatarPacksNow.exc = "none"

\* ------------------------------------------ what the world and the loop show

IsPrefix(a, b) == Len(a) <= Len(b) /\ a = SubSeq(b, 1, Len(a))

Range(f) == {f[i] : i \in DOMAIN f}

\* The stages of the current tick, of those run so far, that apply to unit u.
StagesDueTo(u) ==
    {k \in 1..Len(stageLog) :
        /\ stageLog[k] = "UnitMover" => u.kind = "TestUnit"
        /\ u.born = tickNo => k > 2}

TickComplete == tickNo > 0 /\ stageIdx = NoStage

Hero == units[1]

\* How often handler number i was invoked for event number k.
TimesInvoked(k, i) ==
    Cardinality({j \in 1..Len(invoked) : invoked[j] = <<k, i>>})

\* The handler declares the event's type and, if it declares keys, its key.
DeclaredMatch(h, e) ==
    /\ e.type \in _support_event_types(h)
    /\ (_support_keys(h) # {} => e.key \in _support_keys(h))

\* C6: in every tick the stages run once each in the order of the list
\* (UnitMover, WorldProcessesActivator, UnitMover,
\* UnitAvatarRenderResourceParser), each over every unit it applies to, and
\* a tick begins only when the last stage of the tick before it has run.
C6_StagesRunOnceInOrder ==
    /\ [](/\ IsPrefix(stageLog,
                      <<"UnitMover", "WorldProcessesActivator", "UnitMover",
                        "UnitAvatarRenderResourceParser">>)
          /\ tickNo > 0 => Len(stageLog) = stageIdx - 1
          /\ TickComplete => Len(stageLog) = 4
          /\ \A i \in 1..Len(units) : units[i].seen = StagesDueTo(units[i]))
    /\ [][tickNo' # tickNo =>
            /\ tickNo' = tickNo + 1
            /\ tickNo = 0 \/ Len(stageLog) = 4
            /\ stageLog' = <<>>]_vars

C6_SecondTickComplete ==
    /\ tickNo = 2
    /\ stageIdx = NoStage
    /\ stageLog = Stages
    /\ Len(units) = 3
    /\ Hero.seen = {1, 2, 3, 4}

\* C7: a unit a spawn process adds in the activation stage of a tick is
\* handled by every later stage of that tick, the second mover and the
\* avatar resolver, so that its pack is collected in the tick it was spawned
\* in, and the mover that ran before the activation has not handled it.
C7_SpawnedUnitJoinsTheTick ==
    \A i \in 1..Len(units) :
        (tickNo > 0 /\ units[i].born = tickNo) =>
            /\ Len(stageLog) >= 2
            /\ 1 \notin units[i].seen
            /\ \A k \in 3..Len(stageLog) : k \in units[i].seen
            /\ stageIdx = NoStage =>
                  /\ units[i].resolved = tickNo
                  /\ Len(packs) = Len(units)
                  /\ packs[i] = units[i].avatar.pack
                  /\ packs[i].point = units[i].pos

C7_SpawnedUnitResolved ==
    \E i \in 1..Len(units) :
        /\ units[i].born = tickNo
        /\ tickNo > 0
        /\ stageIdx = NoStage
        /\ units[i].seen = {3, 4}
        /\ units[i].pos \in SpawnPoints
        /\ packs[i].point = units[i].pos

\* C8: a unit with speed limit 2 and a target 10 away along one axis is at
\* no moment of a tick more than 2 from where it was when the tick began,
\* never beyond the target, and at the target at the end of the fifth tick
\* and of no earlier one.
C8_SpeedLimitedApproach ==
    (Hero.limit = 2 /\ Hero.vec0 = <<10, 0>>) =>
        /\ Abs(Hero.pos[1] - Hero.tickStart[1]) <= 2
        /\ Hero.pos[2] = Hero.pos0[2]
        /\ Hero.pos[1] - Hero.pos0[1] \in 0..10
        /\ stageIdx = NoStage =>
              /\ Hero.pos[1] - Hero.pos0[1] = Min(2 * tickNo, 10)
              /\ (Hero.pos = VectorAdd(Hero.pos0, <<10, 0>>)) <=> tickNo >= 5

C8_AtTargetAfterFiveTicks ==
    /\ Hero.limit = 2
    /\ Hero.vec0 = <<10, 0>>
    /\ tickNo = 5
    /\ stageIdx = NoStage
    /\ Hero.pos = <<10, 0>>
    /\ Hero.tickStart = <<8, 0>>

\* C9: an iteration of the loop polls and dispatches the events, then ticks
\* the world once, then renders the packs of that tick, then sleeps, each
\* once and in this order; an iteration begins only after the sleep of the
\* one before it, and a tick only after the poll of its own iteration.
C9_LoopPhasesInOrder ==
    /\ [](/\ IsPrefix(phaseLog, <<"poll", "tick", "render", "sleep">>)
          /\ iter > 0 => phaseLog # <<>>
          /\ tickNo = IF "tick" \in Range(phaseLog) THEN iter ELSE Max(iter - 1, 0)
          /\ "render" \in Range(phaseLog) => rendered = packs /\ stageIdx = NoStage
          /\ (appPc = "stages" \/ stageIdx # NoStage) =>
                phaseLog = <<"poll", "tick">>
          /\ appPc = "dispatch" => phaseLog = <<"poll">>)
    /\ [][iter' # iter =>
            /\ iter' = iter + 1
            /\ iter = 0 \/ phaseLog = <<"poll", "tick", "render", "sleep">>
            /\ phaseLog' = <<"poll">>]_vars

C9_SecondIterationComplete ==
    /\ iter = 2
    /\ phaseLog = <<"poll", "tick", "render", "sleep">>
    /\ appPc = "idle"
    /\ tickNo = 2
    /\ Len(rendered) >= 2
    /\ rendered = packs

\* C10: of the events polled in an iteration, each one dispatched has had
\* every handler that declares its type (and its key, if the handler
\* declares keys) invoked once and no other handler invoked, the handlers of
\* one event in registration order and all of them before any handler of
\* the next event.
C10_DispatchInRegistrationOrder ==
    /\ \A k \in 1..(evIdx - 1), i \in 1..Len(handlers) :
          TimesInvoked(k, i) =
              IF DeclaredMatch(handlers[i], queue[k]) THEN 1 ELSE 0
    /\ \A j \in 1..Len(invoked) : invoked[j][1] \in 1..(evIdx - 1)
    /\ \A j1, j2 \in 1..Len(invoked) :
          j1 < j2 =>
              \/ invoked[j1][1] < invoked[j2][1]
              \/ invoked[j1][1] = invoked[j2][1] /\ invoked[j1][2] < invoked[j2][2]
    /\ evIdx <= Len(queue) + 1

C10_TwoHandlersOfOneEvent ==
    /\ appPc = "idle"
    /\ Len(queue) = 2
    /\ evIdx = 3
    /\ queue[1] = Event("KEYDOWN", "K_SPACE")
    /\ queue[2] = Event("KEYDOWN", "K_a")
    /\ invoked = <<<<2, 2>>, <<2, 3>>>>
    /\ handlers[2] = "MainHeroManagement"
    /\ Hero.vec = <<-2, 0>>

\* The loop has stopped at the bound of the model.
AtLoopBound == appPc = "idle" /\ phaseIdx = 1 /\ iter >= MaxIter

\* C11: the step that takes a QUIT event ends the process at once: the
\* events behind it in the queue are not handled, neither tick nor render
\* nor sleep follows, nothing happens afterwards; and a loop that has not
\* taken a QUIT event has not ended and goes on.
C11_QuitEndsTheProcess ==
    /\ [](/\ \A k \in 1..(evIdx - 1) :
                queue[k].type = "QUIT" => appPc = "exited" /\ k = evIdx - 1
          /\ appPc = "exited" =>
                /\ evIdx >= 2
                /\ queue[evIdx - 1].type = "QUIT"
                /\ \A j \in 1..Len(invoked) : invoked[j][1] < evIdx
                /\ phaseLog = <<"poll">>
                /\ stageIdx = NoStage
          /\ (appPc # "exited" /\ ~AtLoopBound) => ENABLED NextApp)
    /\ [][appPc = "exited" => UNCHANGED vars]_vars

C11_QuitBeforeAKey ==
    /\ handlers = KeyboardController
    /\ appPc = "exited"
    /\ iter = 2
    /\ queue = <<Event("QUIT", NoKey), Event("KEYDOWN", "K_a")>>
    /\ evIdx = 2
    /\ invoked = <<<<1, 1>>>>
    /\ tickNo = 1

\* The routine the adapter declares for a resource type.
DeclaredRoutine(type) ==
    CASE type = "Surface" -> "_handle_pygame_surface"
      [] type = "Polygon" -> "_handle_pygame_polygon"
      [] type = "Line" -> "_handle_pygame_line"
      [] type = "Lines" -> "_handle_pygame_lines"
      [] type = "Circle" -> "_handle_pygame_circle"
      [] type = "Rectangle" -> "_handle_pygame_rect"
      [] type = "Ellipse" -> "_handle_pygame_ellipse"
      [] type = "Arc" -> "_handle_pygame_arc"
      [] OTHER -> "none"

\* The packs of the frame in front of the first one of a type without a
\* routine (all of them when there is none).
Drawable ==
    LET bad == {i \in 1..Len(toDraw) : DeclaredRoutine(toDraw[i].resource.type) = "none"}
    IN  IF bad = {} THEN Len(toDraw)
        ELSE (CHOOSE i \in bad : \A j \in bad : i <= j) - 1

\* C12: each of the eight resource types has exactly one registered routine;
\* a frame draws every pack by the routine of its resource's type, and a
\* pack of a type without a routine (NoneType) is not skipped: the frame
\* fails with NotFound at that pack.
C12_RenderDispatch ==
    /\ \A t \in {"Surface", "Polygon", "Line", "Lines", "Circle", "Rectangle",
                 "Ellipse", "Arc"} :
          RoutinesFor(t) = {DeclaredRoutine(t)}
    /\ RoutinesFor("NoneType") = {}
    /\ renderErr # "pending" =>
          /\ Len(surface) = 1 + Drawable
          /\ \A i \in 1..Drawable :
                surface[i + 1] =
                    DrawCall(DeclaredRoutine(toDraw[i].resource.type),
                             toDraw[i].point)
          /\ renderErr = IF Drawable = Len(toDraw) THEN "none" ELSE "NotFound"

C12_CircleDrawnNoneRefused ==
    /\ renderErr = "NotFound"
    /\ Len(toDraw) = 2
    /\ toDraw[1].resource.type = "Circle"
    /\ toDraw[2].resource.type = "NoneType"
    /\ surface = <<DrawCall("fill", Zero),
                   DrawCall("_handle_pygame_circle", toDraw[1].point)>>

\* -------------------------------------------------------- what geometry shows

\* C13: whatever the distance and the rounder of the divider, dividing a
\* VirtualVector whose start point equals its end point fails with
\* UnableToDivideVectorIntoPointsError and nothing else: the feasibility
\* check returns an error Report that carries this error, and the call
\* raises it without producing points.
C13_ZeroLengthRejected ==
    (division.done /\ division.vector.start_point = division.vector.end_point) =>
        /\ division.checked.exc = "none"
        /\ ~division.checked.report.sign
        /\ division.checked.report.error = "UnableToDivideVectorIntoPointsError"
        /\ division.result.exc = "UnableToDivideVectorIntoPointsError"
        /\ division.result.points = NoPoints

\* the assignment that gave the attribute its latest value
LatestOf(i) ==
    \A j \in (i + 1)..Len(assigned) : assigned[j].attr # assigned[i].attr

\* the discretization of an endpoint pair by the line's divider
Discretization(pair) ==
    Divider__call__(DefaultDivider, VirtualVector(pair[1], pair[2])).points

InPoints(point, points) == \E i \in 1..Len(points) : points[i] = point

\* C14: after any sequence of first_point / second_point assignments on a
\* Line, each endpoint getter returns the value assigned to it last, and
\* all_available_points is the discretization of the endpoint pair that was
\* in effect just before the most recent assignment, so that a containment
\* test made after the assignment is answered against that earlier line.
C14_CacheOneMutationBehind ==
    (line.built /\ assigned # <<>>) =>
        /\ \A i \in 1..Len(assigned) :
              LatestOf(i) => line[assigned[i].attr] = assigned[i].point
        /\ line.all_available_points =
              Discretization(assigned[Len(assigned)].before)
        /\ asked.done =>
              asked.inside =
                  InPoints(get_rounded_by(asked.point, DefaultDivider.rounder),
                           Discretization(assigned[Len(assigned)].before))

\* the displacement of the divided vector, and its length when it runs along
\* one axis
Displacement == VectorSub(division.vector.end_point, division.vector.start_point)

AxisLength == Abs(Displacement[1]) + Abs(Displacement[2])

UnitStep == [i \in 1..Len(Displacement) |-> Num(Sign(Displacement[i]))]

\* C15: a divider with distance_between_points = 1, called on a vector whose
\* displacement runs along one axis with a whole length L >= 1, returns
\* exactly L + 1 points; the first is the start point, the last is the end
\* point, and each point is the one before it moved by the same step of
\* length 1 along the segment.
C15_UnitDivisionPointCount ==
    (/\ division.done
     /\ division.divider.distance_between_points = 1
     /\ AxisLength >= 1) =>
        /\ division.result.exc = "none"
        /\ Len(division.result.points) = AxisLength + 1
        /\ division.result.points[1] = Nums(division.vector.start_point)
        /\ division.result.points[AxisLength + 1] = Nums(division.vector.end_point)
        /\ \A i \in 1..AxisLength :
              division.result.points[i + 1] =
                  FracVectorAdd(division.result.points[i], UnitStep)

\* a displacement of length 10 was divided into 11 points
C15_TenLongDivided ==
    /\ division.done
    /\ division.divider.distance_between_points = 1
    /\ division.vector.start_point = <<0, 0>>
    /\ division.vector.end_point = <<LineLength, 0>>
    /\ Len(division.result.points) = LineLength + 1
    /\ division.result.points[6] = Nums(<<5, 0>>)

\* the line between (0, 0) and (LineLength, 0) as it was constructed
LineAsBuilt ==
    /\ line.built
    /\ assigned = <<>>
    /\ line.first_point = <<0, 0>>
    /\ line.second_point = <<LineLength, 0>>

\* the point lies on the segment from (0, 0) to (LineLength, 0)
OnSegment(point) ==
    /\ point[2] = Num(0)
    /\ point[1][1] >= 0
    /\ point[1][1] <= LineLength * point[1][2]

\* the coordinate is within 0.005 of the whole number k
Near(x, k) == 200 * Abs(x[1] - k * x[2]) <= x[2]

\* C16 as stated: of the Line constructed between (0, 0) and (10, 0) with the
\* default divider, is_point_inside is true for every point (x, 0) with x whole,
\* 0 <= x <= 10, and false for every point off the segment.
C16_InsideExactlyOnTheSegment ==
    (LineAsBuilt /\ asked.done) =>
        /\ (OnSegment(asked.point) /\ IsWhole(asked.point[1])) => asked.inside
        /\ ~OnSegment(asked.point) => ~asked.inside

\* C16: of the Line constructed between (0, 0) and (10, 0) with the default
\* divider, is_point_inside is true exactly for the points within 0.005, in
\* each coordinate, of one of the eleven points (x, 0) with x whole,
\* 0 <= x <= 10: true for each of those points, false for (5, 1), and true
\* for a point off the segment that rounds to one of them.
C16_InsideUpToRounding ==
    (LineAsBuilt /\ asked.done) =>
        asked.inside =
            \E x \in 0..LineLength :
                Near(asked.point[1], x) /\ Near(asked.point[2], 0)

\* (5, 0) was asked about and reported inside
C16_MiddlePointInside ==
    /\ LineAsBuilt
    /\ asked.done
    /\ asked.point = <<Num(5), Num(0)>>
    /\ asked.inside

\* the i-th coordinate of a vector, a missing one counting as 0
CoordinateOrZero(v, i) == IF i <= Len(v) THEN v[i] ELSE 0

\* C17: for Vectors a and b of any coordinate counts, a + b has
\* max(len(a), len(b)) coordinates, the i-th being a_i + b_i with a missing
\* coordinate of the shorter operand counting as 0, so that no coordinate of
\* the longer operand is dropped; b + a is the same vector, and neither
\* operand is modified.
C17_AdditionPadsTheShorter ==
    added.done =>
        /\ Len(added.sum) = Max(Len(added.first), Len(added.second))
        /\ \A i \in 1..Max(Len(added.first), Len(added.second)) :
              added.sum[i] = CoordinateOrZero(added.first, i)
                             + CoordinateOrZero(added.second, i)
        /\ added.swapped = added.sum
        /\ added.first_after = added.first
        /\ added.second_after = added.second

\* (1, 2) + (1, 2, 3) = (2, 4, 3)
C17_TwoPlusThreeCoordinates ==
    /\ added.done
    /\ added.first = <<1, 2>>
    /\ added.second = <<1, 2, 3>>
    /\ added.sum = <<2, 4, 3>>

\* ------------------------------------------------- topics, impulses, spawning

\* C18: activate_animation_by_topic(topic) with a registered topic returns
\* and makes the animation registered for the topic the current one; with
\* an unregistered topic it raises KeyError and leaves the current
\* animation, the default animation and the animations by topic as they were.
C18_ActivateByTopic ==
    [][last'.op = "avatar.activate" =>
          IF last'.arg \in Topics
          THEN /\ err' = "none"
               /\ avatar'.bound
               /\ avatar'.cur = last'.arg
               /\ avatar'.anims = avatar.anims
          ELSE /\ err' = "KeyError"
               /\ avatar' = avatar]_vars

\* the invocations of MainHeroManagement for the event dispatched in the step
HeroHandlings ==
    {j \in 1..Len(invoked') :
        /\ invoked'[j][1] = evIdx
        /\ handlers[invoked'[j][2]] = "MainHeroManagement"}

\* the impulse of the event dispatched in the step
ImpulseOfEvent == MainHeroManagement__handle(queue[evIdx], SpeedLimit)

RECURSIVE Times(_, _)
Times(n, v) == IF n = 0 THEN Zero ELSE VectorAdd(v, Times(n - 1, v))

\* the step dispatches an event
Dispatching == appPc = "dispatch" /\ evIdx' = evIdx + 1

\* C19 as stated: each key-down event that MainHeroManagement handles adds
\* its impulse (speed_limit along the key's axis, right and down positive,
\* left and up negative) to the hero's movement vector, so that the vector
\* is its earlier value plus the impulses of all events handled.
C19_ImpulsesAccumulate ==
    [][Dispatching =>
          units'[1].vec =
              VectorAdd(units[1].vec,
                        Times(Cardinality(HeroHandlings), ImpulseOfEvent))]_vars

\* C19: each key-down event that MainHeroManagement handles replaces the
\* hero's movement vector by its impulse (speed_limit along the key's axis,
\* right and down positive, left and up negative); after a sequence of such
\* events the vector is the impulse of the last one handled, and an event
\* the handler does not handle leaves the vector as it was.
C19_LastImpulseReplaces ==
    [][Dispatching =>
          units'[1].vec =
              IF HeroHandlings # {} THEN ImpulseOfEvent ELSE units[1].vec]_vars

\* two presses of the right key were handled, and the vector is one impulse
C19_TwoPressesOneImpulse ==
    /\ Len(queue) = 2
    /\ evIdx = 3
    /\ queue[1] = Event("KEYDOWN", "K_RIGHT")
    /\ queue[2] = Event("KEYDOWN", "K_RIGHT")
    /\ handlers = ExampleHandlers
    /\ Len(invoked) = 2
    /\ Hero.vec = <<SpeedLimit, 0>>

\* the step runs the activation stage, in which every unit is updated
Updating ==
    /\ stageIdx \in 1..Len(Stages)
    /\ Stages[stageIdx] = "WorldProcessesActivator"
    /\ stageIdx' = stageIdx + 1

\* the point is inside the spawn zone (range(ZoneW), range(ZoneH))
InSpawnZone(point) ==
    /\ point[1] \in 0..(ZoneW - 1)
    /\ point[2] \in 0..(ZoneH - 1)

\* C20: an update() of the UnitSpawner queues exactly one spawn process if
\* its timer is over and none otherwise, and restarts the timer when it
\* spawns; whatever the random draw, the unit it creates is placed at a point
\* whose coordinates are members of the ranges of the spawn zone.
C20_SpawnedInsideTheZone ==
    [][Updating =>
          /\ Len(units') = Len(units) + (IF timerOver THEN 1 ELSE 0)
          /\ ~timerOver'
          /\ \A i \in (Len(units) + 1)..Len(units') :
                InSpawnZone(units'[i].pos)]_vars

\* ------------------------------------------------ the order within an update

\* C21: an update() of an animation shows the sprite the cursor names when
\* the call begins, then takes one tick off that sprite, and only then
\* decides about the cursor; for the finite animation whose sprites stay 1
\* and 2 ticks, the first update() returns with the first sprite at 0
\* remaining ticks and the cursor still at 0.
C21_DecrementBeforeAdvance ==
    (/\ FiniteRequested
     /\ animReq.stays = <<1, 2>>
     /\ calls = 1
     /\ last.op = "anim.update") =>
        /\ err = "none"
        /\ anim.bound
        /\ anim.pack.resource = SpritesOf(animReq.stays)[1].resource
        /\ anim.sprites[1].real_stay_ticks = 0
        /\ anim.idx = 0

\* the animation has been played through: no sprite has a tick left
PlayedThrough(a) ==
    /\ a.bound
    /\ \A i \in 1..Len(a.sprites) : a.sprites[i].real_stay_ticks <= 0

\* C22: the constructor of a topic-animation avatar builds one animation per
\* topic, and neither an activation nor the return to the default animation
\* builds or resets one: activating a topic makes its animation current as
\* it is, and an update() that finds the current topic animation played
\* through returns with the default animation current and the topic
\* animation still played through, so that a finite topic animation plays
\* at most once.
C22_TopicAnimationPlaysOnce ==
    [][/\ last'.op = "avatar.new" =>
             /\ err' = "none"
             /\ avatar'.bound
             /\ \A t \in Topics : avatar'.anims[t].bound
       /\ (last'.op = "avatar.activate" /\ last'.arg \in Topics) =>
             /\ err' = "none"
             /\ avatar'.cur = last'.arg
             /\ avatar'.anims = avatar.anims
       /\ (/\ last'.op = "avatar.update"
           /\ avatar.cur \in Topics
           /\ PlayedThrough(avatar.anims[avatar.cur])) =>
             /\ err' = "none"
             /\ avatar'.cur = "default"
             /\ avatar'.anims[avatar.cur] = avatar.anims[avatar.cur]]_vars

====
